---- MODULE Spec2Model ----
(***************************************************************************)
(* Model of app.py, the "Who's on shift?" dashboard: ICS extraction,       *)
(* summary parsing, role classification, shift aggregation, the search     *)
(* filter, the MC regrouping, the 60 s feed cache and the render cycle.    *)
(*                                                                         *)
(* Python values are modelled as follows.                                  *)
(*   str       a TLA+ string (Len, SubSeq and \o act on strings)           *)
(*   None / x  Optional: <<>> is None, <<x>> is a present value x          *)
(*   dict      a function whose DOMAIN is the set of keys                  *)
(*   datetime  <<days, seconds>>: proleptic-Gregorian day number and       *)
(*             second of the day, UTC; ordered lexicographically           *)
(*   raise     a result record with ok = FALSE                             *)
(***************************************************************************)
EXTENDS Integers, Sequences, FiniteSets, TLC

VARIABLES
    ics_text,        \* argument of a direct call of parse_events_from_ics
    parsed,          \* Optional result of that call
    summary,         \* argument of a direct call of extract_name_and_role
    info,            \* Optional result of that call
    bucket,          \* Optional result of classify_role_standard on info's role
    environ,         \* os.environ: variable name -> Optional str
    ACTIVE_SITES,    \* load_active_sites() at import
    feed,            \* what each site's server answers now
    clock,           \* seconds since the process started
    cache,           \* st.cache_data of fetch_ics: site_id -> Optional entry
    trigger,         \* what started the last script run
    now_utc,         \* Optional now_utc of the last run
    search_text,     \* the search box
    site_choice,     \* the location selectbox
    requested,       \* sites an HTTP request was sent for in the last run
    lookups,         \* fetch_ics calls of the last run: site, time, age met, hit, error
    extracted,       \* events extracted per site in the last run
    all_sites,       \* Optional result of get_active_shifts in the last run
    selected_sites,  \* all_sites after the location selection
    filtered_sites,  \* Optional result of apply_search_filter
    mc_sites,        \* Optional result of regroup_for_mc_view
    screen           \* what the last run rendered

callVars == <<ics_text, parsed, summary, info, bucket>>
configVars == <<environ, ACTIVE_SITES>>
runVars == <<trigger, now_utc, search_text, site_choice, requested, lookups, extracted,
             all_sites, selected_sites, filtered_sites, mc_sites, screen>>
vars == <<callVars, configVars, feed, clock, cache, runVars>>

\* Seconds of process time the model follows.
MaxElapsed == 75

\* Longest ICS document, in lines, handed to parse_events_from_ics directly.
MaxLines == 5

None == <<>>
Some(x) == <<x>>
IsNone(o) == Len(o) = 0
The(o) == o[1]

(***************************************************************************)
(* str helpers                                                             *)
(***************************************************************************)

\* The characters the model's texts are written in, in code point order.
Alphabet == " ()-0123456789:;ABCDEFGHIJKLMNOPQRSTUVWXYZabcdefghijklmnopqrstuvwxyz"

Char(s, i) == SubSeq(s, i, i)

\* one-character string -> rank in code point order ("\t", "\n", "\r" sort
\* before every printable character)
Rank == [c \in {"\t", "\n", "\r"} \cup {Char(Alphabet, i) : i \in 1..Len(Alphabet)} |->
            IF c = "\t" THEN 1
            ELSE IF c = "\n" THEN 2
            ELSE IF c = "\r" THEN 3
            ELSE 3 + (CHOOSE i \in 1..Len(Alphabet) : Char(Alphabet, i) = c)]

Ord(c) == Rank[c]

Uppers == "ABCDEFGHIJKLMNOPQRSTUVWXYZ"
Lowers == "abcdefghijklmnopqrstuvwxyz"

\* upper-case letter -> lower-case letter
LowerOf == [c \in {Char(Uppers, i) : i \in 1..26} |->
               Char(Lowers, CHOOSE i \in 1..26 : Char(Uppers, i) = c)]

LowerChar(c) == IF c \in DOMAIN LowerOf THEN LowerOf[c] ELSE c

RECURSIVE Lower(_)
\* str.lower(), by halves
Lower(s) ==
    IF Len(s) = 0 THEN ""
    ELSE IF Len(s) = 1 THEN LowerChar(s)
    ELSE LET h == Len(s) \div 2
         IN Lower(SubSeq(s, 1, h)) \o Lower(SubSeq(s, h + 1, Len(s)))

Spaces == {" ", "\t", "\n", "\r"}

RECURSIVE LStripIn(_, _)
\* s without its leading characters of the set cls
LStripIn(s, cls) ==
    IF s # "" /\ Char(s, 1) \in cls THEN LStripIn(SubSeq(s, 2, Len(s)), cls) ELSE s

RECURSIVE RStripIn(_, _)
\* s without its trailing characters of the set cls
RStripIn(s, cls) ==
    IF s # "" /\ Char(s, Len(s)) \in cls THEN RStripIn(SubSeq(s, 1, Len(s) - 1), cls) ELSE s

\* str.strip()
Strip(s) == RStripIn(LStripIn(s, Spaces), Spaces)

\* str.rstrip(c) for a one-character c
RStripChar(s, c) == RStripIn(s, {c})

\* str.startswith(p)
StartsWith(s, p) == Len(s) >= Len(p) /\ SubSeq(s, 1, Len(p)) = p

OccursAt(s, sub, i) == i + Len(sub) - 1 <= Len(s) /\ SubSeq(s, i, i + Len(sub) - 1) = sub

\* sub in s
Contains(s, sub) == \E i \in 1..(Len(s) + 1) : OccursAt(s, sub, i)

\* The least element of a non-empty set of integers.
Least(S) == CHOOSE i \in S : \A j \in S : i <= j

\* s.find(sub) + 1 for a sub that occurs in s
Find(s, sub) == Least({i \in 1..(Len(s) + 1) : OccursAt(s, sub, i)})

\* The two parts around position i of s, where a separator of length n starts.
CutAt(s, i, n) == <<SubSeq(s, 1, i - 1), SubSeq(s, i + n, Len(s))>>

\* s.split(sep, 1) for a sep that occurs in s: the text before and after the
\* first occurrence
SplitOnce(s, sep) == CutAt(s, Find(s, sep), Len(sep))

RECURSIVE StrLess(_, _)
\* a < b on str: lexicographic by code point
StrLess(a, b) ==
    IF b = "" THEN FALSE
    ELSE IF a = "" THEN TRUE
    ELSE IF Char(a, 1) # Char(b, 1) THEN Ord(Char(a, 1)) < Ord(Char(b, 1))
    ELSE StrLess(SubSeq(a, 2, Len(a)), SubSeq(b, 2, Len(b)))

LineEnds == {"\n", "\r"}

\* Where the first line of a non-empty s ends: the position of its first line
\* end character, Len(s)+1 when it has none.
FirstLineEnd(s) ==
    Least({i \in 1..Len(s) : Char(s, i) \in LineEnds} \cup {Len(s) + 1})

\* The first line of s, which ends at e, and the text after its line end.
CutLine(s, e) ==
    <<SubSeq(s, 1, e - 1),
      SubSeq(s, IF e < Len(s) /\ Char(s, e) = "\r" /\ Char(s, e + 1) = "\n"
                THEN e + 2 ELSE e + 1, Len(s))>>

RECURSIVE SplitLines(_)
RECURSIVE SplitRest(_)
\* str.splitlines() (line ends "\n", "\r\n", "\r"), one line per step
SplitRest(cut) == <<cut[1]>> \o SplitLines(cut[2])
SplitLines(s) == IF s = "" THEN <<>> ELSE SplitRest(CutLine(s, FirstLineEnd(s)))

RECURSIVE Join(_, _)
\* sep.join(parts)
Join(parts, sep) ==
    IF Len(parts) = 0 THEN ""
    ELSE IF Len(parts) = 1 THEN parts[1]
    ELSE parts[1] \o sep \o Join(Tail(parts), sep)

(***************************************************************************)
(* dict helpers                                                            *)
(***************************************************************************)

EmptyDict == <<>>
DictSet(d, k, v) == (k :> v) @@ d
HasKey(d, k) == k \in DOMAIN d
\* d.get(k): Optional
DictGet(d, k) == IF HasKey(d, k) THEN Some(d[k]) ELSE None

(***************************************************************************)
(* ICS parsing                                                             *)
(***************************************************************************)

Digits == "0123456789"
\* digit character -> value
DigitOf == [c \in {Char(Digits, i) : i \in 1..10} |->
               (CHOOSE i \in 1..10 : Char(Digits, i) = c) - 1]
IsDigit(c) == c \in DOMAIN DigitOf
DigitVal(c) == DigitOf[c]

RECURSIVE Num(_)
\* int(s) for a non-empty string of digits
Num(s) ==
    IF Len(s) = 1 THEN DigitVal(s)
    ELSE 10 * Num(SubSeq(s, 1, Len(s) - 1)) + DigitVal(Char(s, Len(s)))

AllDigits(s) == \A i \in 1..Len(s) : IsDigit(Char(s, i))

IsLeap(y) == y % 4 = 0 /\ (y % 100 # 0 \/ y % 400 = 0)

DaysInMonth(y, m) ==
    IF m = 2 THEN (IF IsLeap(y) THEN 29 ELSE 28)
    ELSE IF m \in {4, 6, 9, 11} THEN 30 ELSE 31

RECURSIVE DaysBeforeMonth(_, _)
DaysBeforeMonth(y, m) ==
    IF m = 1 THEN 0 ELSE DaysBeforeMonth(y, m - 1) + DaysInMonth(y, m - 1)

\* date(y, m, d).toordinal()
DayNumber(y, m, d) ==
    LET p == y - 1
    IN p * 365 + (p \div 4) - (p \div 100) + (p \div 400) + DaysBeforeMonth(y, m) + d

\* datetime(y, m, d, hh, mm, ss, tzinfo=utc)
MkDatetime(y, m, d, hh, mm, ss) == <<DayNumber(y, m, d), hh * 3600 + mm * 60 + ss>>

\* a <= b on datetime
DtLeq(a, b) == a[1] < b[1] \/ (a[1] = b[1] /\ a[2] <= b[2])

ValueError == [ok |-> FALSE, error |-> "ValueError"]
Ok(v) == [ok |-> TRUE, value |-> v]

\* The datetime of the six fields, or the ValueError of a field out of range.
checked_datetime(y, m, d, hh, mm, ss) ==
    IF /\ y >= 1
       /\ m \in 1..12
       /\ d >= 1
       /\ d <= DaysInMonth(y, m)
       /\ hh <= 23
       /\ mm <= 59
       /\ ss <= 59
    THEN Ok(MkDatetime(y, m, d, hh, mm, ss))
    ELSE ValueError

\* datetime.strptime(dt_str, "%Y%m%dT%H%M%SZ").replace(tzinfo=utc), for values
\* written with the format's full field widths; anything else that is not
\* sixteen characters of that shape raises ValueError.
parse_ics_datetime(dt_str) ==
    IF /\ Len(dt_str) = 16
       /\ AllDigits(SubSeq(dt_str, 1, 8))
       /\ Char(dt_str, 9) = "T"
       /\ AllDigits(SubSeq(dt_str, 10, 15))
       /\ Char(dt_str, 16) = "Z"
    THEN checked_datetime(Num(SubSeq(dt_str, 1, 4)), Num(SubSeq(dt_str, 5, 6)),
                          Num(SubSeq(dt_str, 7, 8)), Num(SubSeq(dt_str, 10, 11)),
                          Num(SubSeq(dt_str, 12, 13)), Num(SubSeq(dt_str, 14, 15)))
    ELSE ValueError

AfterPrefix(line, prefix) == SubSeq(line, Len(prefix) + 1, Len(line))

\* `if current:` on the accumulator closed by END:VEVENT.
AccumulatorKept(current) == ~IsNone(current) /\ DOMAIN The(current) # {}

\* current[key] = value, or the exception parse_ics_datetime raised
set_datetime(st, key, r) ==
    IF r.ok
    THEN [st EXCEPT !.current = Some(DictSet(The(st.current), key, r.value))]
    ELSE [st EXCEPT !.ok = FALSE]

\* The body of the loop over ics_text.splitlines() for the stripped line; st
\* holds events, current and whether an exception has been raised.
parse_stripped(st, line) ==
    IF ~st.ok THEN st
    ELSE IF line = "BEGIN:VEVENT" THEN [st EXCEPT !.current = Some(EmptyDict)]
    ELSE IF line = "END:VEVENT" THEN
         [st EXCEPT !.events = IF AccumulatorKept(st.current)
                               THEN Append(st.events, The(st.current))
                               ELSE st.events,
                    !.current = None]
    ELSE IF ~IsNone(st.current) THEN
         IF StartsWith(line, "DTSTART:") THEN
             set_datetime(st, "start", parse_ics_datetime(AfterPrefix(line, "DTSTART:")))
         ELSE IF StartsWith(line, "DTEND:") THEN
             set_datetime(st, "end", parse_ics_datetime(AfterPrefix(line, "DTEND:")))
         ELSE IF StartsWith(line, "SUMMARY:") THEN
             [st EXCEPT !.current =
                 Some(DictSet(The(st.current), "summary", AfterPrefix(line, "SUMMARY:")))]
         ELSE IF StartsWith(line, "LOCATION:") THEN
             [st EXCEPT !.current =
                 Some(DictSet(The(st.current), "location_raw", AfterPrefix(line, "LOCATION:")))]
         ELSE st
    ELSE st

parse_line(st, raw_line) == parse_stripped(st, Strip(raw_line))

RECURSIVE parse_lines(_, _)
parse_lines(st, lines) ==
    IF Len(lines) = 0 THEN st
    ELSE parse_lines(parse_line(st, Head(lines)), Tail(lines))

\* Ok(events), or ValueError when parse_ics_datetime raised.
parse_result(st) == IF st.ok THEN Ok(st.events) ELSE ValueError

parse_events_from_ics(text) ==
    parse_result(parse_lines([events |-> <<>>, current |-> None, ok |-> TRUE],
                             SplitLines(text)))

(***************************************************************************)
(* Summary parsing and role classification                                 *)
(***************************************************************************)

ShiftDelim == " (Shift as "
AtDelim == " at "

\* The greatest element of a non-empty set of integers.
Greatest(S) == CHOOSE i \in S : \A j \in S : j <= i

\* The role text of a summary's right-hand side, cut at the LAST " at ".
role_part_rsplit(rest) ==
    IF Contains(rest, AtDelim)
    THEN SubSeq(rest, 1, Greatest({k \in 1..Len(rest) : OccursAt(rest, AtDelim, k)}) - 1)
    ELSE RStripChar(rest, ")")

\* role_part of extract_name_and_role: the text before the first " at ", or
\* the whole right-hand side without its trailing ")" characters.
role_part_of(rest) ==
    IF Contains(rest, AtDelim)
    THEN SplitOnce(rest, AtDelim)[1]
    ELSE RStripChar(rest, ")")

\* name and role from the two sides of the delimiter
name_and_role(parts) == [name |-> Strip(parts[1]), role |-> Strip(role_part_of(parts[2]))]

extract_name_and_role(s) ==
    IF Contains(s, ShiftDelim)
    THEN name_and_role(SplitOnce(s, ShiftDelim))
    ELSE [name |-> s, role |-> "Unknown"]

\* A classifier that looks for the Pilot keywords before the MC keywords.
pilot_first_bucket(r) ==
    IF Contains(r, "flight operator") \/ Contains(r, "(fo)") \/ Contains(r, "pilot")
    THEN "Pilot"
    ELSE IF Contains(r, "mission control") \/ Contains(r, "(mc)") THEN "MC"
    ELSE "Other"

\* the standard bucket of a lower-cased role
standard_bucket(r) ==
    IF Contains(r, "mission control") \/ Contains(r, "(mc)") THEN "MC"
    ELSE IF Contains(r, "flight operator") \/ Contains(r, "(fo)") \/ Contains(r, "pilot")
         THEN "Pilot"
    ELSE "Other"

\* the MC-view bucket of a lower-cased role
mc_focus_bucket(r) ==
    IF Contains(r, "flight operator") \/ Contains(r, "(fo)") THEN "Flight Operator"
    ELSE IF Contains(r, "loader") THEN "Loader"
    ELSE IF Contains(r, "collector") THEN "Collector"
    ELSE "Other"

classify_role_standard(role) == standard_bucket(Lower(role))

classify_role_mc_focus(role) == mc_focus_bucket(Lower(role))

(***************************************************************************)
(* Configuration                                                           *)
(***************************************************************************)

\* SITE_CONFIG, keys in insertion order (the flag emoji is written as the
\* country code).
SiteIds == <<"dublin15", "espoo">>
SiteIdSet == {SiteIds[i] : i \in 1..Len(SiteIds)}

SITE_CONFIG ==
    [dublin15 |-> [env_var |-> "WIW_ICS_URL_DUBLIN15", label |-> "IE Dublin 15", flag |-> "IE"],
     espoo    |-> [env_var |-> "WIW_ICS_URL_ESPOO", label |-> "FI Espoo", flag |-> "FI"]]

\* `if url:` on os.getenv's Optional[str]
UrlConfigured(url) == ~IsNone(url) /\ The(url) # ""

\* An ordered dict is a sequence of records keyed by site_id.
Keys(d) == {d[i].site_id : i \in 1..Len(d)}
Entry(d, k) == d[CHOOSE i \in 1..Len(d) : d[i].site_id = k]

\* load_active_sites() under the environment env (variable name -> Optional str)
load_active_sites(env) ==
    LET Configured(site_id) == UrlConfigured(env[SITE_CONFIG[site_id].env_var])
        ids == SelectSeq(SiteIds, Configured)
    IN [i \in 1..Len(ids) |->
           [site_id |-> ids[i],
            meta |-> [env_var |-> SITE_CONFIG[ids[i]].env_var,
                      label |-> SITE_CONFIG[ids[i]].label,
                      flag |-> SITE_CONFIG[ids[i]].flag,
                      url |-> The(env[SITE_CONFIG[ids[i]].env_var])]]]

(***************************************************************************)
(* fetch_ics behind st.cache_data(ttl=60)                                  *)
(***************************************************************************)

\* ttl of st.cache_data, seconds
TTL == 60
\* timeout of requests.get, seconds
RequestTimeout == 15

EmptyCache == [k \in SiteIdSet |-> None]

\* A cache that still serves an entry at the age of exactly the ttl.
CacheHit_inclusive(c, site_id, t) ==
    ~IsNone(c[site_id]) /\ t - The(c[site_id]).stored <= TTL

\* A stored entry is served while its age is below the ttl.
CacheHit(c, site_id, t) == ~IsNone(c[site_id]) /\ t - The(c[site_id]).stored < TTL

\* requests.get(url, timeout=15) followed by raise_for_status(), against a
\* server that answers resp after resp.took seconds; a timeout takes the full
\* RequestTimeout.
http_get(resp) ==
    IF resp.kind = "ok" THEN [ok |-> TRUE, text |-> resp.text, took |-> resp.took]
    ELSE IF resp.kind = "timeout"
         THEN [ok |-> FALSE, error |-> "Timeout", took |-> RequestTimeout]
    ELSE [ok |-> FALSE, error |-> "HTTPError", took |-> resp.took]

\* Optional age at time t of the entry the cache holds for the site.
entry_age(c, site_id, t) ==
    IF IsNone(c[site_id]) THEN None ELSE Some(t - The(c[site_id]).stored)

\* What a failed fetch_ics leaves in the cache.
cache_after_failure(c, site_id) == c

\* The miss path of fetch_ics: the request r was sent at time t; the text of
\* a successful one is stored at the time it returns.
fetch_miss(c, site_id, t, r) ==
    IF r.ok
    THEN [ok |-> TRUE, text |-> r.text, t |-> t + r.took,
          cache |-> [c EXCEPT ![site_id] = Some([value |-> r.text, stored |-> t + r.took])],
          requested |-> TRUE]
    ELSE [ok |-> FALSE, error |-> r.error, t |-> t + r.took,
          cache |-> cache_after_failure(c, site_id), requested |-> TRUE]

\* fetch_ics(site_id) called at time t with cache c: a hit returns the stored
\* text, a miss sends the request.
fetch_ics(c, site_id, t, resp) ==
    IF CacheHit(c, site_id, t)
    THEN [ok |-> TRUE, text |-> The(c[site_id]).value, t |-> t, cache |-> c,
          requested |-> FALSE]
    ELSE fetch_miss(c, site_id, t, http_get(resp))

(***************************************************************************)
(* Shift aggregation                                                       *)
(***************************************************************************)

EmptyRoles == [MC |-> <<>>, Pilot |-> <<>>, Other |-> <<>>]

\* A window test that leaves both bounds out.
shift_is_active_strict(start, now, end) ==
    DtLeq(start, now) /\ DtLeq(now, end) /\ start # now /\ now # end

\* start <= now_utc <= end
shift_is_active(start, now, end) == DtLeq(start, now) /\ DtLeq(now, end)

\* The dict appended to a bucket for an event that has start and end.
shift_entry(ev) ==
    LET i == extract_name_and_role(IF HasKey(ev, "summary") THEN ev["summary"] ELSE "")
    IN [name |-> i.name, role |-> i.role, start |-> ev["start"], end |-> ev["end"]]

\* roles[bucket].append(entry)
append_entry(roles, e) == [roles EXCEPT ![classify_role_standard(e.role)] = Append(@, e)]

\* Whether the loop body reaches the append for the event.
event_kept(ev, now) ==
    /\ ~IsNone(DictGet(ev, "start"))
    /\ ~IsNone(DictGet(ev, "end"))
    /\ shift_is_active(ev["start"], now, ev["end"])

RECURSIVE bucket_events(_, _, _)
\* The loop over the events of one feed.
bucket_events(roles, events, now) ==
    IF Len(events) = 0 THEN roles
    ELSE IF ~event_kept(Head(events), now)
         THEN bucket_events(roles, Tail(events), now)
    ELSE bucket_events(append_entry(roles, shift_entry(Head(events))), Tail(events), now)

\* A sort that puts an entry before the entries of the same name.
insert_before_equals(sorted, x) ==
    LET k == Cardinality({i \in 1..Len(sorted) : StrLess(sorted[i].name, x.name)})
    IN SubSeq(sorted, 1, k) \o <<x>> \o SubSeq(sorted, k + 1, Len(sorted))

\* Place of x in an already sorted list: after every element whose name is
\* not greater (list.sort is stable and compares with < only).
insert_by_name(sorted, x) ==
    LET k == Cardinality({i \in 1..Len(sorted) : ~StrLess(x.name, sorted[i].name)})
    IN SubSeq(sorted, 1, k) \o <<x>> \o SubSeq(sorted, k + 1, Len(sorted))

RECURSIVE sort_by_name(_)
\* people.sort(key=lambda x: x["name"])
sort_by_name(people) ==
    IF Len(people) = 0 THEN <<>>
    ELSE insert_by_name(sort_by_name(SubSeq(people, 1, Len(people) - 1)),
                        people[Len(people)])

sort_buckets(roles) == [b \in DOMAIN roles |-> sort_by_name(roles[b])]

\* An aggregation that leaves out a site nobody is on shift at.
add_site_if_staffed(results, site_id, meta, roles) ==
    IF \A b \in DOMAIN roles : Len(roles[b]) = 0 THEN results
    ELSE Append(results, [site_id |-> site_id, meta |-> meta, roles |-> roles])

\* results[site_id] = {"meta": meta, "roles": roles}
add_site(results, site_id, meta, roles) ==
    Append(results, [site_id |-> site_id, meta |-> meta, roles |-> roles])

\* The rest of an iteration once the feed text is parsed.
after_parse(g, site, now, p) ==
    IF ~p.ok THEN [g EXCEPT !.ok = FALSE, !.error = p.error]
    ELSE [g EXCEPT
            !.extracted = Append(@, [site_id |-> site.site_id, events |-> p.value]),
            !.results = add_site(@, site.site_id, site.meta,
                                 sort_buckets(bucket_events(EmptyRoles, p.value, now)))]

\* An aggregation that carries on with an empty text when a fetch fails.
after_fetch_swallow(g, id, f) ==
    [g EXCEPT !.t = f.t,
              !.cache = f.cache,
              !.requested = IF f.requested THEN Append(@, id) ELSE @,
              !.lookups = Append(@, [site_id |-> id, at |-> g.t, age |-> entry_age(g.cache, id, g.t),
                                     hit |-> ~f.requested,
                                     error |-> IF f.ok THEN "" ELSE f.error]),
              !.text = IF f.ok THEN f.text ELSE ""]

\* The call state once fetch_ics has returned or raised f.
after_fetch(g, id, f) ==
    [g EXCEPT !.ok = f.ok,
              !.error = IF f.ok THEN @ ELSE f.error,
              !.t = f.t,
              !.cache = f.cache,
              !.requested = IF f.requested THEN Append(@, id) ELSE @,
              !.lookups = Append(@, [site_id |-> id, at |-> g.t, age |-> entry_age(g.cache, id, g.t),
                                     hit |-> ~f.requested,
                                     error |-> IF f.ok THEN "" ELSE f.error]),
              !.text = IF f.ok THEN f.text ELSE ""]

\* The rest of an iteration once fetch_ics has returned or raised.
fetched_step(g, site, now) ==
    IF ~g.ok THEN g ELSE after_parse(g, site, now, parse_events_from_ics(g.text))

\* One iteration of the loop over ACTIVE_SITES in get_active_shifts. g is the
\* state of the call: whether an exception has propagated, the time, the
\* cache, the requests sent, the lookups made, the text fetched last, the
\* events extracted and the results so far.
site_step(g, site, now, feeds) ==
    IF ~g.ok THEN g
    ELSE fetched_step(
            after_fetch(g, site.site_id,
                        fetch_ics(g.cache, site.site_id, g.t, feeds[site.site_id])),
            site, now)

RECURSIVE site_loop(_, _, _, _)
site_loop(g, sites, now, feeds) ==
    IF Len(sites) = 0 THEN g
    ELSE site_loop(site_step(g, Head(sites), now, feeds), Tail(sites), now, feeds)

\* get_active_shifts(now) started at time t with cache c.
get_active_shifts(active, now, t, c, feeds) ==
    site_loop([ok |-> TRUE, error |-> "", t |-> t, cache |-> c, requested |-> <<>>,
               lookups |-> <<>>, text |-> "", extracted |-> <<>>, results |-> <<>>],
              active, now, feeds)

\* A flattening that forgets the MC list.
everyone_but_mc(roles) ==
    (IF HasKey(roles, "Pilot") THEN roles["Pilot"] ELSE <<>>)
    \o (IF HasKey(roles, "Other") THEN roles["Other"] ELSE <<>>)

\* The MC / Pilot / Other lists of a site, flattened in that order.
everyone_of(roles) ==
    (IF HasKey(roles, "MC") THEN roles["MC"] ELSE <<>>)
    \o (IF HasKey(roles, "Pilot") THEN roles["Pilot"] ELSE <<>>)
    \o (IF HasKey(roles, "Other") THEN roles["Other"] ELSE <<>>)

McBuckets == {"Flight Operator", "Loader", "Collector", "Other"}

regroup_for_mc_view(sites) ==
    [i \in 1..Len(sites) |->
        LET everyone == everyone_of(sites[i].roles)
            In(b) == LET Goes(q) == classify_role_mc_focus(q.role) = b
                     IN SelectSeq(everyone, Goes)
        IN [site_id |-> sites[i].site_id,
            meta |-> sites[i].meta,
            roles |-> [b \in McBuckets |-> sort_by_name(In(b))]]]

\* A match against the name and role as they are written.
person_matches_as_written(q, search) ==
    Contains(q.name, search) \/ Contains(q.role, search)

\* search in p["name"].lower() or search in p["role"].lower()
person_matches(q, search) ==
    Contains(Lower(q.name), search) \/ Contains(Lower(q.role), search)

\* search_text.lower().strip()
search_key(text) == Strip(Lower(text))

apply_search_filter(sites, text) ==
    IF text = "" THEN sites
    ELSE LET search == search_key(text)
             Match(q) == person_matches(q, search)
             New(i) == [b \in DOMAIN sites[i].roles |-> SelectSeq(sites[i].roles[b], Match)]
             Kept(site) == \E b \in DOMAIN site.roles : Len(site.roles[b]) > 0
             filtered == [i \in 1..Len(sites) |->
                             [site_id |-> sites[i].site_id, meta |-> sites[i].meta,
                              roles |-> New(i)]]
         IN SelectSeq(filtered, Kept)

(***************************************************************************)
(* main()                                                                  *)
(***************************************************************************)

\* Wall-clock time when the process started: 2025-12-01T08:00:00Z.
StartInstant == MkDatetime(2025, 12, 1, 8, 0, 0)

\* datetime.now(timezone.utc) when the process has run for t seconds
WallClock(t) ==
    LET secs == StartInstant[2] + t
    IN <<StartInstant[1] + (secs \div 86400), secs % 86400>>

AllLocations == "All locations"
site_label(meta) == meta.flag \o " " \o meta.label

\* the options of the location selectbox
site_options(active) == {AllLocations} \cup {site_label(active[i].meta) : i \in 1..Len(active)}

\* "Filter by site dropdown"
select_site(active, sites, choice) ==
    LET match == {i \in 1..Len(active) : site_label(active[i].meta) = choice}
    IN IF choice = AllLocations \/ match = {} THEN sites
       ELSE LET first == CHOOSE i \in match : \A j \in match : i <= j
                chosen == active[first].site_id
            IN IF chosen \in Keys(sites) THEN <<Entry(sites, chosen)>>
               ELSE <<[site_id |-> chosen, meta |-> active[first].meta,
                       roles |-> EmptyRoles]>>

NoScreen == [kind |-> "none", standard |-> <<>>, mc |-> <<>>]

\* The script has not run.
RunIdle ==
    /\ trigger = "none"
    /\ now_utc = None
    /\ search_text = ""
    /\ site_choice = AllLocations
    /\ requested = <<>>
    /\ lookups = <<>>
    /\ extracted = <<>>
    /\ all_sites = None
    /\ selected_sites = None
    /\ filtered_sites = None
    /\ mc_sites = None
    /\ screen = NoScreen

\* No direct call is in progress.
CallIdle ==
    /\ ics_text = ""
    /\ parsed = None
    /\ summary = ""
    /\ info = None
    /\ bucket = None

\* The application part of the state while only direct calls are made.
AppIdle ==
    /\ environ = [v \in {SITE_CONFIG[k].env_var : k \in SiteIdSet} |-> None]
    /\ ACTIVE_SITES = load_active_sites(environ)
    /\ feed = [k \in SiteIdSet |-> [kind |-> "timeout", took |-> RequestTimeout]]
    /\ clock = 0
    /\ cache = EmptyCache
    /\ RunIdle

\* What main() renders once apply_search_filter has returned filtered
render(filtered) ==
    IF Len(filtered) = 0
    THEN /\ mc_sites' = None
         /\ screen' = [kind |-> "info_nomatch", standard |-> <<>>, mc |-> <<>>]
    ELSE /\ mc_sites' = Some(regroup_for_mc_view(filtered))
         /\ screen' = [kind |-> "tabs", standard |-> filtered, mc |-> The(mc_sites')]

\* main() from the location selection on
select_and_filter(selected, s) ==
    /\ selected_sites' = Some(selected)
    /\ filtered_sites' = Some(apply_search_filter(selected, s))
    /\ render(The(filtered_sites'))

\* main() once get_active_shifts has returned or raised; g is its call state.
after_shifts(g, s, ch) ==
    /\ g.t <= MaxElapsed
    /\ search_text' = s
    /\ site_choice' = ch
    /\ requested' = g.requested
    /\ lookups' = g.lookups
    /\ extracted' = g.extracted
    /\ cache' = g.cache
    /\ clock' = g.t
    /\ IF ~g.ok
       THEN /\ all_sites' = None
            /\ selected_sites' = None
            /\ filtered_sites' = None
            /\ mc_sites' = None
            /\ screen' = [kind |-> "error", standard |-> <<>>, mc |-> <<>>]
       ELSE /\ all_sites' = Some(g.results)
            /\ IF Len(g.results) = 0
               THEN /\ selected_sites' = None
                    /\ filtered_sites' = None
                    /\ mc_sites' = None
                    /\ screen' = [kind |-> "info_none", standard |-> <<>>, mc |-> <<>>]
               ELSE select_and_filter(select_site(ACTIVE_SITES, g.results, ch), s)

\* One run of main() with the cache c0, the search box holding s and the
\* selectbox ch.
main(why, c0, s, ch) ==
    /\ trigger' = why
    /\ IF Len(ACTIVE_SITES) = 0
       THEN /\ screen' = [kind |-> "config_error", standard |-> <<>>, mc |-> <<>>]
            /\ now_utc' = None
            /\ search_text' = ""
            /\ site_choice' = AllLocations
            /\ requested' = <<>>
            /\ lookups' = <<>>
            /\ extracted' = <<>>
            /\ all_sites' = None
            /\ selected_sites' = None
            /\ filtered_sites' = None
            /\ mc_sites' = None
            /\ cache' = c0
            /\ clock' = clock
       ELSE /\ now_utc' = Some(WallClock(clock))
            /\ after_shifts(get_active_shifts(ACTIVE_SITES, WallClock(clock), clock, c0,
                                              feed), s, ch)

\* The page is loaded, or a widget changes: the script runs.
Rerun(searches, choices) ==
    \E s \in searches, ch \in choices \cap site_options(ACTIVE_SITES) :
        /\ main("rerun", cache, s, ch)
        /\ UNCHANGED <<callVars, configVars, feed>>

\* "Refresh now" is pressed: st.cache_data.clear(), then st.rerun() runs the
\* script again with the widgets as they are.
RefreshNow ==
    /\ screen.kind \notin {"none", "config_error"}
    /\ main("refresh", EmptyCache, search_text, site_choice)
    /\ UNCHANGED <<callVars, configVars, feed>>

\* Time passes between runs.
Tick ==
    /\ clock + RequestTimeout <= MaxElapsed
    /\ clock' = clock + RequestTimeout
    /\ UNCHANGED <<callVars, configVars, feed, cache, runVars>>

\* A site's server starts answering differently.
FeedChange(responses) ==
    \E k \in Keys(ACTIVE_SITES), r \in responses :
        /\ feed[k] # r
        /\ feed' = [feed EXCEPT ![k] = r]
        /\ UNCHANGED <<callVars, configVars, clock, cache, runVars>>

(***************************************************************************)
(* Feeds                                                                   *)
(***************************************************************************)

VEvent(lines) == Join(<<"BEGIN:VEVENT">> \o lines \o <<"END:VEVENT">>, "\n")

T0800 == "20251201T080000Z"
T0830 == "20251201T080030Z"
T0801 == "20251201T080100Z"

Shift(from, to, text) ==
    VEvent(<<"DTSTART:" \o from, "DTEND:" \o to, "SUMMARY:" \o text>>)

HttpOk(text, took) == [kind |-> "ok", text |-> text, took |-> took]

\* One shift that ends half a minute after the process starts.
DocShort == Shift(T0800, T0830, "Al (Shift as Pilot (MC) at HQ)")
\* A DTSTART that is not in the basic UTC format.
DocBadDate == Shift("2025-12-01 08:00", T0830, "Cy (Shift as Pilot at HQ)")

Responses ==
    {HttpOk(DocShort, 0), HttpOk(DocShort, RequestTimeout), HttpOk(DocBadDate, 0),
     [kind |-> "status", took |-> 0], [kind |-> "timeout", took |-> RequestTimeout]}

EnvOf(d15, espoo) ==
    (SITE_CONFIG["dublin15"].env_var :> d15) @@ (SITE_CONFIG["espoo"].env_var :> espoo)

Environments ==
    {EnvOf(Some("https://wiw.example/d15.ics"), Some("https://wiw.example/espoo.ics")),
     EnvOf(Some("https://wiw.example/d15.ics"), None),
     EnvOf(Some(""), Some("https://wiw.example/espoo.ics")),
     EnvOf(None, None)}

Init ==
    /\ CallIdle
    /\ environ \in Environments
    /\ ACTIVE_SITES = load_active_sites(environ)
    /\ feed \in [SiteIdSet -> Responses]
    /\ clock = 0
    /\ cache = EmptyCache
    /\ RunIdle

Next ==
    \/ Rerun({""}, {AllLocations})
    \/ RefreshNow
    \/ Tick
    \/ FeedChange(Responses)

Spec == Init /\ [][Next]_vars

(***************************************************************************)
(* Feeds with several shifts, and the search box in use                    *)
(***************************************************************************)

DocSort ==
    Join(<<Shift(T0800, T0830, "Zed (Shift as Pilot at HQ)"),
           Shift(T0800, T0830, "al (Shift as Flight Operator (FO) at HQ at Espoo)"),
           Shift(T0800, T0830, "al (Shift as Pilot)"),
           Shift(T0830, T0801, "Bo (Shift as Loader (FO) at HQ)")>>, "\n")

DocMixed ==
    Join(<<Shift(T0800, T0830, "Al (Shift as Pilot at HQ)"),
           Shift(T0800, T0830, "Al (Shift as Pilot (MC) at HQ)"),
           Shift(T0830, T0801, "Cy (Shift as Warehouse Loader)"),
           Shift(T0800, T0830, "Di (Shift as Collector))")>>, "\r\n")

DocOdd ==
    Join(<<VEvent(<<"DTSTART:" \o T0800, "DTEND:" \o T0830, "LOCATION:HQ">>),
           Shift(T0800, T0830, "Bo (Shift as  at HQ)"),
           Shift(T0800, T0801, "Team meeting")>>, "\n")

DocPartial ==
    Join(<<VEvent(<<"DTSTART:" \o T0800, "SUMMARY:Ed (Shift as Pilot)">>),
           VEvent(<<"SUMMARY:Flo (Shift as Pilot)", "DTEND:" \o T0801>>),
           Shift(T0830, T0800, "Gus (Shift as Pilot)"),
           Shift(T0830, T0830, "Hal (Shift as Mission Control (MC) at HQ)")>>, "\n")

FeedOf(d15, espoo) == ("dublin15" :> HttpOk(d15, 0)) @@ ("espoo" :> HttpOk(espoo, 0))

ShiftFeeds == {FeedOf(DocSort, DocMixed), FeedOf(DocOdd, DocPartial)}

ShiftEnvironments ==
    {EnvOf(Some("https://wiw.example/d15.ics"), Some("https://wiw.example/espoo.ics"))}

Searches == {"", " ", "AL ", "zz"}

Choices == {AllLocations, site_label(SITE_CONFIG["espoo"])}

InitShifts ==
    /\ CallIdle
    /\ environ \in ShiftEnvironments
    /\ ACTIVE_SITES = load_active_sites(environ)
    /\ feed \in ShiftFeeds
    /\ clock = 0
    /\ cache = EmptyCache
    /\ RunIdle

NextShifts ==
    \/ Rerun(Searches, Choices)
    \/ Tick

SpecShifts == InitShifts /\ [][NextShifts]_vars

(***************************************************************************)
(* Direct calls of parse_events_from_ics                                   *)
(***************************************************************************)

LinePool ==
    {"BEGIN:VEVENT", "END:VEVENT", "DTSTART:20251201T080000Z",
     "DTEND:20251201T090000Z", "SUMMARY:Al", "SUMMARY:Bo", "LOCATION:HQ",
     "X-WR-CALNAME:Ops"}

RECURSIVE SeqsUpTo(_, _)
\* the sequences over S of length at most n
SeqsUpTo(S, n) ==
    IF n = 0 THEN {<<>>}
    ELSE LET shorter == SeqsUpTo(S, n - 1)
         IN shorter \cup {Append(q, x) : q \in {r \in shorter : Len(r) = n - 1}, x \in S}

IcsTexts == {Join(ls, "\n") : ls \in SeqsUpTo(LinePool, MaxLines)}

InitICS ==
    /\ ics_text \in IcsTexts
    /\ parsed = None
    /\ summary = ""
    /\ info = None
    /\ bucket = None
    /\ AppIdle

CallParse ==
    /\ IsNone(parsed)
    /\ parsed' = Some(parse_events_from_ics(ics_text))
    /\ UNCHANGED <<ics_text, summary, info, bucket, configVars, feed, clock, cache, runVars>>

NextICS == CallParse

SpecICS == InitICS /\ [][NextICS]_vars

(***************************************************************************)
(* C1                                                                      *)
(***************************************************************************)

\* The stripped lines of the document handed to parse_events_from_ics.
DocLines == LET ls == SplitLines(ics_text) IN [i \in 1..Len(ls) |-> Strip(ls[i])]

BeginIdx == {i \in 1..Len(DocLines) : DocLines[i] = "BEGIN:VEVENT"}
EndIdx == {i \in 1..Len(DocLines) : DocLines[i] = "END:VEVENT"}

\* BEGIN:VEVENT and END:VEVENT lines alternate, starting with a BEGIN and
\* ending with an END.
ProperlyPaired ==
    /\ \A b \in BeginIdx :
          \E e \in EndIdx : b < e /\ \A m \in (BeginIdx \cup EndIdx) : ~(b < m /\ m < e)
    /\ \A e \in EndIdx :
          \E b \in BeginIdx : b < e /\ \A m \in (BeginIdx \cup EndIdx) : ~(b < m /\ m < e)

\* The k-th BEGIN:VEVENT line and the END:VEVENT line that closes it.
PairBegin(k) == CHOOSE b \in BeginIdx : Cardinality({x \in BeginIdx : x < b}) = k - 1
PairEnd(k) == CHOOSE e \in EndIdx : e > PairBegin(k) /\ \A x \in EndIdx : x > PairBegin(k) => e <= x

\* The lines of the k-th block that carry the given prefix.
PrefixedIn(k, prefix) ==
    {j \in (PairBegin(k) + 1)..(PairEnd(k) - 1) : StartsWith(DocLines[j], prefix)}

LastOf(S) == CHOOSE j \in S : \A x \in S : x <= j

TrackedFields ==
    {<<"start", "DTSTART:">>, <<"end", "DTEND:">>,
     <<"summary", "SUMMARY:">>, <<"location_raw", "LOCATION:">>}

\* C1: for a properly paired document, parse_events_from_ics returns one
\* event per BEGIN:VEVENT/END:VEVENT pair, in document order, and each tracked
\* field is present in an event exactly when its prefixed line occurred in
\* that block (a block with no recognized line gives an event with no field).
C1_OneEventPerPair ==
    (~IsNone(parsed) /\ The(parsed).ok /\ ProperlyPaired) =>
        LET evs == The(parsed).value
        IN /\ Len(evs) = Cardinality(BeginIdx)
           /\ \A k \in 1..Len(evs) :
                 /\ \A f \in TrackedFields :
                       HasKey(evs[k], f[1]) <=> PrefixedIn(k, f[2]) # {}
                 /\ HasKey(evs[k], "summary") =>
                       evs[k]["summary"] =
                           AfterPrefix(DocLines[LastOf(PrefixedIn(k, "SUMMARY:"))], "SUMMARY:")

(***************************************************************************)
(* Direct calls of extract_name_and_role                                   *)
(***************************************************************************)

JaneDoeSummary ==
    "Jane Doe (Shift as Mission Control (MC) at HQ at Dublin 15 Operations Schedule)"

SummaryNames == {"Jane Doe", "  Al ", "", "bo"}
SummaryRoles ==
    {"Mission Control (MC)", "Pilot", "Flight Operator (FO)", "Warehouse Loader",
     "", "PILOT (mc)", " Collector "}
SummaryTails ==
    {" at HQ at Dublin 15 Operations Schedule)", " at HQ)", ")", "))", ""}

SummaryPool ==
    {n \o ShiftDelim \o r \o t : n \in SummaryNames, r \in SummaryRoles, t \in SummaryTails}
    \cup {"", "Team meeting at HQ", "Al (shift as Pilot at HQ)", " Shift as Pilot)",
          "Al (Shift as Loader (Shift as Pilot at HQ)"}

InitSummary ==
    /\ ics_text = ""
    /\ parsed = None
    /\ summary \in SummaryPool
    /\ info = None
    /\ bucket = None
    /\ AppIdle

CallExtract ==
    /\ IsNone(info)
    /\ info' = Some(extract_name_and_role(summary))
    /\ UNCHANGED <<ics_text, parsed, summary, bucket, configVars, feed, clock, cache, runVars>>

CallClassify ==
    /\ ~IsNone(info)
    /\ IsNone(bucket)
    /\ bucket' = Some(classify_role_standard(The(info).role))
    /\ UNCHANGED <<ics_text, parsed, summary, info, configVars, feed, clock, cache, runVars>>

NextSummary == CallExtract \/ CallClassify

SpecSummary == InitSummary /\ [][NextSummary]_vars

(***************************************************************************)
(* C10                                                                     *)
(***************************************************************************)

\* i is where sub first occurs in s.
FirstAt(s, sub, i) == OccursAt(s, sub, i) /\ \A j \in 1..(i - 1) : ~OccursAt(s, sub, j)

\* r is s without its trailing ")" characters.
WithoutClosing(s, r) ==
    \E k \in 0..Len(s) :
        /\ r = SubSeq(s, 1, Len(s) - k)
        /\ \A j \in (Len(s) - k + 1)..Len(s) : Char(s, j) = ")"
        /\ Len(r) > 0 => Char(r, Len(r)) # ")"

\* what the summary grammar gives for a summary that holds the delimiter
GrammarResult(s, res) ==
    \E i \in 1..Len(s) :
        /\ FirstAt(s, ShiftDelim, i)
        /\ res.name = Strip(SubSeq(s, 1, i - 1))
        /\ LET rest == SubSeq(s, i + Len(ShiftDelim), Len(s))
           IN IF Contains(rest, AtDelim)
              THEN \E j \in 1..Len(rest) :
                      /\ FirstAt(rest, AtDelim, j)
                      /\ res.role = Strip(SubSeq(rest, 1, j - 1))
              ELSE \E r \in {SubSeq(rest, 1, n) : n \in 0..Len(rest)} :
                      /\ WithoutClosing(rest, r)
                      /\ res.role = Strip(r)

\* C10: extract_name_and_role gives, for a summary that holds " (Shift as ",
\* the trimmed text before its first occurrence as the name and the trimmed
\* text up to the first following " at " as the role (the rest without its
\* trailing ")" when there is no " at "); for any other summary the name is
\* the whole summary and the role is "Unknown".  The Jane Doe summary gives
\* name "Jane Doe", role "Mission Control (MC)" and bucket MC.
C10_ExtractNameAndRole ==
    /\ ~IsNone(info) =>
          /\ Contains(summary, ShiftDelim) => GrammarResult(summary, The(info))
          /\ ~Contains(summary, ShiftDelim) =>
                The(info) = [name |-> summary, role |-> "Unknown"]
          /\ summary = JaneDoeSummary =>
                The(info) = [name |-> "Jane Doe", role |-> "Mission Control (MC)"]
    /\ (~IsNone(bucket) /\ summary = JaneDoeSummary) => The(bucket) = "MC"

\* The Jane Doe summary has been extracted and classified; it holds two " at ".
C10_Witness ==
    /\ summary = JaneDoeSummary
    /\ ~IsNone(info)
    /\ ~IsNone(bucket)
    /\ The(info).role = "Mission Control (MC)"

(***************************************************************************)
(* Properties of the running dashboard                                     *)
(***************************************************************************)

\* The site's feed URL is set to a non-empty value.
Configured(k) ==
    /\ ~IsNone(environ[SITE_CONFIG[k].env_var])
    /\ The(environ[SITE_CONFIG[k].env_var]) # ""

LookedUp == {lookups[i].site_id : i \in 1..Len(lookups)}

StandardBuckets == {"MC", "Pilot", "Other"}

\* C6: a successful get_active_shifts result holds every site whose feed URL
\* is configured, with the three buckets MC, Pilot and Other present, also
\* when nothing of its feed is active now; a site without a configured URL
\* never appears in the result and is never fetched.
C6_ActiveSitesAlwaysPresent ==
    \A k \in SiteIdSet :
        IF Configured(k)
        THEN ~IsNone(all_sites) =>
                /\ k \in Keys(The(all_sites))
                /\ DOMAIN Entry(The(all_sites), k).roles = StandardBuckets
        ELSE /\ ~IsNone(all_sites) => k \notin Keys(The(all_sites))
             /\ k \notin LookedUp
             /\ \A i \in 1..Len(requested) : requested[i] # k
             /\ IsNone(cache[k])

\* A run succeeded with a site nobody is on shift at, beside an inactive site.
C6_Witness ==
    /\ ~IsNone(all_sites)
    /\ \E k \in SiteIdSet : ~Configured(k)
    /\ \E i \in 1..Len(The(all_sites)) :
          /\ Configured(The(all_sites)[i].site_id)
          /\ \A b \in StandardBuckets : The(all_sites)[i].roles[b] = <<>>

\* A fetch of the last run raised.
FetchFailed == \E i \in 1..Len(lookups) : lookups[i].error # ""

\* A feed text obtained in the last run could not be extracted.
ExtractFailed ==
    \E i \in 1..Len(lookups) :
        /\ lookups[i].error = ""
        /\ \A j \in 1..Len(extracted) : extracted[j].site_id # lookups[i].site_id

\* C7: when the fetch of one active feed fails, or its extraction fails on a
\* malformed DTSTART/DTEND, get_active_shifts gives no result for any site and
\* main shows the error message alone: no site section, partial result or
\* data of an earlier run.
C7_FailFast ==
    (FetchFailed \/ ExtractFailed) =>
        /\ IsNone(all_sites)
        /\ IsNone(selected_sites)
        /\ IsNone(filtered_sites)
        /\ IsNone(mc_sites)
        /\ screen = [kind |-> "error", standard |-> <<>>, mc |-> <<>>]

\* The first site's feed was fetched and extracted, the second one's fetch
\* failed, and the error is on screen.
C7_Witness ==
    /\ Len(lookups) = 2
    /\ Len(extracted) = 1
    /\ lookups[1].error = ""
    /\ lookups[2].error # ""
    /\ screen.kind = "error"

\* The script runs in this step.
ScriptRuns == Rerun({""}, {AllLocations}) \/ RefreshNow

\* The cache the run starts with.
CacheAtStart == IF trigger' = "refresh" THEN EmptyCache ELSE cache

ActiveIds == {ACTIVE_SITES[i].site_id : i \in 1..Len(ACTIVE_SITES)}

RequestedNext == {requested'[i] : i \in 1..Len(requested')}

\* C8 as stated: a stored text is reused without a request by a run that
\* starts less than 60 seconds after it was fetched; a run that starts 60
\* seconds or more after it, or that follows a refresh, sends a new request
\* for the site; a failed fetch stores nothing.
C8_ByCycleStart ==
    [][ScriptRuns =>
          \A k \in ActiveIds :
              /\ (~IsNone(CacheAtStart[k]) /\ clock - The(CacheAtStart[k]).stored < TTL)
                    => k \notin RequestedNext
              /\ (\/ trigger' = "refresh"
                  \/ ~IsNone(CacheAtStart[k]) /\ clock - The(CacheAtStart[k]).stored >= TTL)
                    => k \in RequestedNext
              /\ \A i \in 1..Len(lookups') :
                    (lookups'[i].site_id = k /\ lookups'[i].error # "")
                        => cache'[k] = CacheAtStart[k]]_vars

\* C8 by lookup: a run looks the active sites up in order, up to the first
\* failure.  A lookup is served from the cache, without a request and leaving
\* the entry as it is, exactly when the site has an entry stored less than 60
\* seconds before the lookup; any other lookup sends a request, whose text is
\* stored on success and which stores nothing on failure.  A refresh empties
\* the cache of every site before the run.
C8_ByLookup ==
    [][ScriptRuns =>
          /\ \A i \in 1..Len(lookups') :
                LET l == lookups'[i]
                    e == CacheAtStart[l.site_id]
                    fresh == ~IsNone(e) /\ l.at - The(e).stored < TTL
                IN /\ l.site_id = ACTIVE_SITES[i].site_id
                   /\ l.hit <=> fresh
                   /\ l.hit <=> l.site_id \notin RequestedNext
                   /\ l.hit => l.error = "" /\ cache'[l.site_id] = e
                   /\ (~l.hit /\ l.error # "") => cache'[l.site_id] = e
                   /\ (~l.hit /\ l.error = "") =>
                         /\ ~IsNone(cache'[l.site_id])
                         /\ The(cache'[l.site_id]).value = feed[l.site_id].text
                         /\ The(cache'[l.site_id]).stored = l.at + feed[l.site_id].took
                   /\ i < Len(lookups') => l.error = ""
          /\ Len(lookups') <= Len(ACTIVE_SITES)
          /\ (Len(lookups') < Len(ACTIVE_SITES) /\ Len(lookups') > 0)
                => (lookups'[Len(lookups')].error # "" \/ IsNone(all_sites'))
          /\ \A k \in SiteIdSet \ {lookups'[i].site_id : i \in 1..Len(lookups')} :
                cache'[k] = CacheAtStart[k]]_vars

\* The second site's text was 45 seconds old when the run started and 60
\* when it was looked up after the first site's slow request, and was fetched
\* again.
C8_Witness ==
    /\ trigger = "rerun"
    /\ Len(lookups) = 2
    /\ lookups[2].at = lookups[1].at + RequestTimeout
    /\ lookups[2].age = Some(TTL)
    /\ ~lookups[2].hit
    /\ lookups[2].error = ""
    /\ \E i \in 1..Len(requested) : requested[i] = lookups[2].site_id

(***************************************************************************)
(* Properties of the aggregated shifts                                     *)
(***************************************************************************)

\* The entries of a site, bucket after bucket.
EntriesOf(site) == site.roles["MC"] \o site.roles["Pilot"] \o site.roles["Other"]

Timed(ev) == "start" \in DOMAIN ev /\ "end" \in DOMAIN ev

\* The event has start and end, and start <= now <= end.
Inside(ev, now) == Timed(ev) /\ DtLeq(ev["start"], now) /\ DtLeq(now, ev["end"])

\* How many elements of the sequence have the window from..to.
CountWindow(seq, from, to) ==
    Cardinality({k \in 1..Len(seq) :
                    /\ Timed(seq[k])
                    /\ seq[k]["start"] = from
                    /\ seq[k]["end"] = to})

CountInside(evs, now) == Cardinality({k \in 1..Len(evs) : Inside(evs[k], now)})

\* C2: get_active_shifts(now) has an entry for an extracted event that has
\* start and end exactly when start <= now <= end, both bounds included; an
\* event outside its window, or without start or end, gives no entry.
C2_ClosedInterval ==
    ~IsNone(all_sites) =>
        \A i \in 1..Len(extracted) :
            LET evs == extracted[i].events
                entries == EntriesOf(Entry(The(all_sites), extracted[i].site_id))
            IN /\ Len(entries) = CountInside(evs, The(now_utc))
               /\ \A k \in 1..Len(evs) :
                     Timed(evs[k]) =>
                        CountWindow(entries, evs[k]["start"], evs[k]["end"])
                          = IF Inside(evs[k], The(now_utc))
                            THEN CountWindow(evs, evs[k]["start"], evs[k]["end"])
                            ELSE 0

\* now is the end of one listed shift and the start of another, and an
\* extracted event with start and end is not listed.
C2_Witness ==
    /\ ~IsNone(all_sites)
    /\ \E i \in 1..Len(The(all_sites)) :
          LET entries == EntriesOf(The(all_sites)[i])
          IN /\ \E k \in 1..Len(entries) : entries[k].end = The(now_utc)
             /\ \E k \in 1..Len(entries) : entries[k].start = The(now_utc)
    /\ \E i \in 1..Len(extracted) : \E k \in 1..Len(extracted[i].events) :
          Timed(extracted[i].events[k]) /\ ~Inside(extracted[i].events[k], The(now_utc))

\* The elements of seq that have the name n and occur in the bucket.
NamedIn(seq, n, people) ==
    LET Is(x) == x.name = n /\ \E j \in 1..Len(people) : people[j] = x
    IN SelectSeq(seq, Is)

\* The bucket is in non-decreasing order of name by code point, and its
\* entries of equal name are in the order they have in before.
SortedStable(people, before) ==
    /\ \A i, j \in 1..Len(people) : i < j => ~StrLess(people[j].name, people[i].name)
    /\ \A i \in 1..Len(people) :
          NamedIn(people, people[i].name, people) = NamedIn(before, people[i].name, people)

\* The entries of the events listed at now, in document order.
DocumentOrder(evs, now) ==
    LET Listed(ev) == Inside(ev, now)
        kept == SelectSeq(evs, Listed)
    IN [k \in 1..Len(kept) |-> shift_entry(kept[k])]

\* C3: in the results of get_active_shifts and of regroup_for_mc_view every
\* bucket of every site is sorted by name in non-decreasing case-sensitive
\* order, and entries of equal name keep the order they had before the sort:
\* document order, and the order MC, Pilot, Other of the flattened buckets.
C3_SortedStable ==
    /\ ~IsNone(all_sites) =>
          \A i \in 1..Len(extracted) :
              LET site == Entry(The(all_sites), extracted[i].site_id)
              IN \A b \in DOMAIN site.roles :
                    SortedStable(site.roles[b],
                                 DocumentOrder(extracted[i].events, The(now_utc)))
    /\ ~IsNone(mc_sites) =>
          \A i \in 1..Len(The(mc_sites)) :
              \A b \in DOMAIN The(mc_sites)[i].roles :
                  SortedStable(The(mc_sites)[i].roles[b],
                               EntriesOf(The(filtered_sites)[i]))

\* Two entries of the same name and different roles share a bucket.
SharedName(people) ==
    \E i, j \in 1..Len(people) : i < j /\ people[i].name = people[j].name
                                       /\ people[i].role # people[j].role

\* A capitalised name stands before a lower-case one that precedes it in the
\* alphabet.
CaseDecides(people) ==
    \E i, j \in 1..Len(people) :
        i < j /\ StrLess(Lower(people[j].name), Lower(people[i].name))

C3_Witness ==
    /\ ~IsNone(all_sites)
    /\ ~IsNone(mc_sites)
    /\ \E i \in 1..Len(The(all_sites)) : \E b \in StandardBuckets :
          SharedName(The(all_sites)[i].roles[b]) /\ CaseDecides(The(all_sites)[i].roles[b])
    /\ \E i \in 1..Len(The(mc_sites)) : \E b \in DOMAIN The(mc_sites)[i].roles :
          SharedName(The(mc_sites)[i].roles[b])

\* C4: every entry get_active_shifts places in a bucket has a non-empty
\* name, a non-empty role and start <= end.
C4_ShiftEntryInvariant ==
    ~IsNone(all_sites) =>
        \A i \in 1..Len(The(all_sites)) :
            LET entries == EntriesOf(The(all_sites)[i])
            IN \A k \in 1..Len(entries) :
                  /\ entries[k].name # ""
                  /\ entries[k].role # ""
                  /\ DtLeq(entries[k].start, entries[k].end)

\* The name or the role holds the key, whatever the case of their letters.
Matches(q, key) == Contains(Lower(q.name), key) \/ Contains(Lower(q.role), key)

\* out holds, per site and bucket of in, the entries that match the key in
\* their order, and the sites of in that have a matching entry.
FilteredBy(in, out, key) ==
    /\ Keys(out) \subseteq Keys(in)
    /\ \A i, j \in 1..Len(out) : i # j => out[i].site_id # out[j].site_id
    /\ \A i \in 1..Len(in) :
          LET Hit(q) == Matches(q, key)
              kept == [b \in DOMAIN in[i].roles |-> SelectSeq(in[i].roles[b], Hit)]
          IN IF \A b \in DOMAIN kept : kept[b] = <<>>
             THEN in[i].site_id \notin Keys(out)
             ELSE /\ in[i].site_id \in Keys(out)
                  /\ Entry(out, in[i].site_id).roles = kept
                  /\ Entry(out, in[i].site_id).meta = in[i].meta

\* C5 as stated: an empty search gives the input back; any other search
\* keeps, per site and bucket, the entries whose name or role contains the
\* search text whatever the case, and drops a site none of whose entries
\* match.
C5_FilterBySearchText ==
    ~IsNone(filtered_sites) =>
        IF search_text = "" THEN The(filtered_sites) = The(selected_sites)
        ELSE FilteredBy(The(selected_sites), The(filtered_sites), Lower(search_text))

\* C5 with the search trimmed: an empty search gives the input back; any
\* other search is lower-cased and stripped of leading and trailing
\* whitespace, and the entries whose name or role contains what is left,
\* whatever the case, are kept per site and bucket in their order (all of
\* them when nothing is left); a site none of whose entries match is dropped.
C5_FilterByTrimmedSearch ==
    ~IsNone(filtered_sites) =>
        IF search_text = "" THEN The(filtered_sites) = The(selected_sites)
        ELSE FilteredBy(The(selected_sites), The(filtered_sites),
                        Strip(Lower(search_text)))

\* A search with a trailing blank kept an entry that does not hold the
\* blank, and dropped a site.
C5_Witness ==
    /\ ~IsNone(filtered_sites)
    /\ search_text = "AL "
    /\ Len(The(filtered_sites)) < Len(The(selected_sites))
    /\ \E i \in 1..Len(The(filtered_sites)) :
          LET entries == EntriesOf(The(filtered_sites)[i])
          IN \E k \in 1..Len(entries) : ~Matches(entries[k], Lower(search_text))

\* Some keyword of the set occurs in the role, whatever the case.
HasKeyword(role, keywords) == \E w \in keywords : Contains(Lower(role), w)

\* The bucket of the first rule that matches.
FirstMatch(role) ==
    IF HasKeyword(role, {"mission control", "(mc)"}) THEN "MC"
    ELSE IF HasKeyword(role, {"flight operator", "(fo)", "pilot"}) THEN "Pilot"
    ELSE "Other"

\* C9: classify_role_standard gives every role exactly one of MC, Pilot and
\* Other, the first rule that matches deciding: MC for "mission control" or
\* "(mc)", else Pilot for "flight operator", "(fo)" or "pilot", else Other,
\* whatever the case; a role with a keyword of both is MC, and every entry of
\* a get_active_shifts result is in the one bucket of its role.
C9_FirstMatchBucket ==
    ~IsNone(all_sites) =>
        \A i \in 1..Len(extracted) :
            LET site == Entry(The(all_sites), extracted[i].site_id)
            IN /\ DOMAIN site.roles = StandardBuckets
               /\ \A b \in StandardBuckets : \A k \in 1..Len(site.roles[b]) :
                     FirstMatch(site.roles[b][k].role) = b
               /\ Len(EntriesOf(site)) = CountInside(extracted[i].events, The(now_utc))

\* An entry whose role holds a Pilot keyword and an MC keyword is listed
\* under MC.
C9_Witness ==
    /\ ~IsNone(all_sites)
    /\ \E i \in 1..Len(The(all_sites)) :
          \E k \in 1..Len(The(all_sites)[i].roles["MC"]) :
              /\ HasKeyword(The(all_sites)[i].roles["MC"][k].role, {"pilot"})
              /\ HasKeyword(The(all_sites)[i].roles["MC"][k].role, {"(mc)"})

(***************************************************************************)
(* Properties of the MC view                                               *)
(***************************************************************************)

\* The bucket of the first MC-view rule that matches.
McFirstMatch(role) ==
    IF HasKeyword(role, {"flight operator", "(fo)"}) THEN "Flight Operator"
    ELSE IF HasKeyword(role, {"loader"}) THEN "Loader"
    ELSE IF HasKeyword(role, {"collector"}) THEN "Collector"
    ELSE "Other"

\* How many elements of the sequence equal x.
CountOf(seq, x) == Cardinality({k \in 1..Len(seq) : seq[k] = x})

\* The entries of a site of the MC view, bucket after bucket.
McEntriesOf(site) ==
    site.roles["Flight Operator"] \o site.roles["Loader"]
      \o site.roles["Collector"] \o site.roles["Other"]

\* C11: regroup_for_mc_view gives, for a standard result (filtered or not),
\* the same sites, each with the four buckets Flight Operator, Loader,
\* Collector and Other; every entry of the MC, Pilot and Other lists of a
\* site is there exactly once, in the bucket of the first MC-view rule its
\* role matches, none added and none lost; the standard result is left as it
\* was, and nothing is fetched or extracted for it.
C11_RegroupForMcView ==
    ~IsNone(mc_sites) =>
        LET in == The(filtered_sites)
            out == The(mc_sites)
        IN /\ Len(out) = Len(in)
           /\ \A i \in 1..Len(in) :
                 /\ out[i].site_id = in[i].site_id
                 /\ out[i].meta = in[i].meta
                 /\ DOMAIN out[i].roles = {"Flight Operator", "Loader", "Collector", "Other"}
                 /\ \A b \in DOMAIN out[i].roles : \A k \in 1..Len(out[i].roles[b]) :
                       McFirstMatch(out[i].roles[b][k].role) = b
                 /\ Len(McEntriesOf(out[i])) = Len(EntriesOf(in[i]))
                 /\ \A k \in 1..Len(EntriesOf(in[i])) :
                       CountOf(McEntriesOf(out[i]), EntriesOf(in[i])[k])
                         = CountOf(EntriesOf(in[i]), EntriesOf(in[i])[k])
           /\ screen.standard = in
           /\ in = apply_search_filter(The(selected_sites), search_text)
           /\ Len(lookups) = Len(ACTIVE_SITES)
           /\ Len(extracted) = Len(ACTIVE_SITES)

\* The standard result had an entry under MC, and the MC view lists people
\* under Flight Operator, Loader and Collector, one of them under Flight
\* Operator with a role that also holds "loader".
C11_Witness ==
    /\ ~IsNone(mc_sites)
    /\ \E i \in 1..Len(The(filtered_sites)) : The(filtered_sites)[i].roles["MC"] # <<>>
    /\ \A b \in {"Flight Operator", "Loader", "Collector"} :
          \E i \in 1..Len(The(mc_sites)) : The(mc_sites)[i].roles[b] # <<>>
    /\ \E i \in 1..Len(The(mc_sites)) :
          \E k \in 1..Len(The(mc_sites)[i].roles["Flight Operator"]) :
              HasKeyword(The(mc_sites)[i].roles["Flight Operator"][k].role, {"loader"})

====
